---------------------------- MODULE Spec2Model ----------------------------
(***************************************************************************)
(* sql2struct (src/main.go): a one-shot generator that reads a SQL CREATE  *)
(* TABLE text, extracts the table name and the column descriptors with     *)
(* regular expressions, maps SQL types to Go types and renders a PO        *)
(* struct, an entity struct and the two conversion functions.              *)
(*                                                                         *)
(* Strings are sequences of characters; a character is a one-letter TLA+   *)
(* string; the backtick and the runes outside ASCII are atoms "U+xxxx".     *)
(* Regular                                                                 *)
(* expressions are modelled by what Go's regexp package returns for them:  *)
(* the leftmost match, and among the matches at one position the one a     *)
(* backtracking matcher finds first (greedy operators longest first, lazy  *)
(* operators shortest first).                                              *)
(***************************************************************************)
EXTENDS Integers, Sequences, FiniteSets, TLC

VARIABLES
    pc,                 \* position of the run
    sqlContent,         \* the text of the SQL file
    TableName,          \* SQLParser.TableName
    StructName,         \* SQLParser.StructName
    SecondStructName,   \* SQLParser.SecondStructName
    Fields,             \* SQLParser.Fields
    out,                \* what GenerateStruct rendered and wrote
    arg,                \* argument of a naming function
    pascalRes,          \* ToPascalCase(arg)
    snakeRes,           \* ToSnakeCase(pascalRes)
    po,                 \* a PO row handed to the generated ToXEntity
    entity,             \* the entity the generated ToXEntity built
    po2,                \* the PO row the generated ToX built from it
    schema              \* how the SQL text was written: its table clause and columns

vars == <<pc, sqlContent, TableName, StructName, SecondStructName, Fields,
          out, arg, pascalRes, snakeRes, po, entity, po2, schema>>

-----------------------------------------------------------------------------
(* Bounds *)

MaxLen == 4         \* longest argument of the naming functions
MaxCols == 2        \* most column definitions in one SQL text
MaxVal == 2         \* largest payload of a PO wrapper (0 is the zero value)

-----------------------------------------------------------------------------
(* Characters *)

LowerLetters == <<"a","b","c","d","e","f","g","h","i","j","k","l","m",
                  "n","o","p","q","r","s","t","u","v","w","x","y","z">>
UpperLetters == <<"A","B","C","D","E","F","G","H","I","J","K","L","M",
                  "N","O","P","Q","R","S","T","U","V","W","X","Y","Z">>
Digits == {"0","1","2","3","4","5","6","7","8","9"}

Range(f) == {f[i] : i \in DOMAIN f}

LowerSet == Range(LowerLetters)
UpperSet == Range(UpperLetters)
UpperOf == [c \in LowerSet |-> UpperLetters[CHOOSE i \in 1..26 : LowerLetters[i] = c]]
LowerOf == [c \in UpperSet |-> LowerLetters[CHOOSE i \in 1..26 : UpperLetters[i] = c]]

IsLower(c) == c \in LowerSet
IsUpper(c) == c \in UpperSet
IsLetter(c) == IsLower(c) \/ IsUpper(c)
IsDigit(c) == c \in Digits
IsWord(c) == IsLetter(c) \/ IsDigit(c) \/ c = "_"
IsSpace(c) == c \in {" ", "\n", "\t"}

ToUpperChar(c) == IF IsLower(c) THEN UpperOf[c] ELSE c
ToLowerChar(c) == IF IsUpper(c) THEN LowerOf[c] ELSE c

ToUpper(s) == [i \in 1..Len(s) |-> ToUpperChar(s[i])]
ToLower(s) == [i \in 1..Len(s) |-> ToLowerChar(s[i])]

\* The two runes of the encryption marker of Parse, and the backtick.
NonAsciiLetters == {"U+52A0", "U+5BC6"}
Backtick == "U+0060"

\* strings.Title's isSeparator: ASCII letters, digits and the underscore are
\* not separators, any other ASCII character is; a rune outside ASCII that is
\* a letter (the only such runes of the model) is not.
IsSeparator(c) == ~IsWord(c) /\ c \notin NonAsciiLetters

\* strings.Title: upper-cases every letter that begins a word, that is, every
\* letter at the start or after a separator.
Title(s) ==
    [i \in 1..Len(s) |->
        IF i = 1 \/ IsSeparator(s[i-1]) THEN ToUpperChar(s[i]) ELSE s[i]]

RECURSIVE SplitFrom(_, _, _)
SplitFrom(s, i, cur) ==
    IF i > Len(s) THEN <<cur>>
    ELSE IF s[i] = "_" THEN <<cur>> \o SplitFrom(s, i + 1, <<>>)
    ELSE SplitFrom(s, i + 1, Append(cur, s[i]))

\* strings.Split(s, "_")
Split(s) == SplitFrom(s, 1, <<>>)

RECURSIVE Join(_)
Join(parts) == IF parts = <<>> THEN <<>> ELSE Head(parts) \o Join(Tail(parts))

-----------------------------------------------------------------------------
(* Naming transformer *)

SnakeStepNoGuard(i, r) ==
    IF IsUpper(r) THEN <<"_", ToLowerChar(r)>> ELSE <<r>>

SnakeStep(i, r) ==
    IF IsUpper(r)
    THEN (IF i > 1 THEN <<"_">> ELSE <<>>) \o <<ToLowerChar(r)>>
    ELSE <<r>>

ToSnakeCase(s) == Join([i \in 1..Len(s) |-> SnakeStep(i, s[i])])

\* The segments of s, each through strings.Title, joined.
PascalConcat(s) ==
    LET parts == Split(s)
    IN  Join([i \in 1..Len(parts) |-> Title(parts[i])])

ToPascalCaseNoRecap(s) ==
    LET result == PascalConcat(s)
    IN  IF Len(result) > 0 /\ result[1] = "F" THEN Tail(result) ELSE result

ToPascalCase(s) ==
    LET result == PascalConcat(s)
    IN  IF Len(result) > 0 /\ result[1] = "F"
        THEN LET remaining == Tail(result)
             IN  IF remaining # <<>>
                 THEN <<ToUpperChar(remaining[1])>> \o Tail(remaining)
                 ELSE remaining
        ELSE result

-----------------------------------------------------------------------------
(* Regular expressions of Parse *)

Max(S) == CHOOSE x \in S : \A y \in S : y <= x
Min(S) == CHOOSE x \in S : \A y \in S : x <= y

At(s, i) == IF i >= 1 /\ i <= Len(s) THEN s[i] ELSE "EOF"

\* The literal lit stands in s at position i.
LitAt(s, i, lit) ==
    /\ i >= 1
    /\ i + Len(lit) - 1 <= Len(s)
    /\ \A k \in 1..Len(lit) : s[i + k - 1] = lit[k]

\* The same under (?i); lit is written in upper case.
LitAtFold(s, i, lit) ==
    /\ i >= 1
    /\ i + Len(lit) - 1 <= Len(s)
    /\ \A k \in 1..Len(lit) : ToUpperChar(s[i + k - 1]) = lit[k]

\* The character classes of the expressions.
InClass(cls, c) ==
    CASE cls = "w" -> IsWord(c)
      [] cls = "s" -> IsSpace(c)
      [] cls = "S" -> ~IsSpace(c)
      [] cls = "d" -> IsDigit(c)
      [] cls = "A-Za-z" -> IsLetter(c)
      [] cls = "." -> c # "\n"
      [] cls = "^(" -> c # "("

\* The end of the longest run of characters of class cls that starts at i
\* (i - 1 when the run is empty).
RECURSIVE RunEnd(_, _, _)
RunEnd(s, i, cls) ==
    IF i <= Len(s) /\ InClass(cls, s[i]) THEN RunEnd(s, i + 1, cls) ELSE i - 1

\* \b between positions i - 1 and i.
WordBoundary(s, i) == IsWord(At(s, i - 1)) # IsWord(At(s, i))

NoMatch == [found |-> FALSE]

LitCreateTable == <<"C","R","E","A","T","E"," ","T","A","B","L","E"," ">>
LitComment == <<"C","O","M","M","E","N","T">>
LitNot == <<"N","O","T">>
LitNull == <<"N","U","L","L">>
LitDefault == <<"D","E","F","A","U","L","T">>
LitVarchar == <<"V","A","R","C","H","A","R">>
LitMarker == <<"U+52A0", "U+5BC6">>

\* (?:_\{[a-zA-Z]+\})? taken: the suffix stands at position j.
SuffixAt(s, j) ==
    /\ At(s, j) = "_"
    /\ At(s, j + 1) = "{"
    /\ LET e == RunEnd(s, j + 2, "A-Za-z")
       IN  e >= j + 2 /\ At(s, e + 1) = "}"

\* Every way `CREATE TABLE \S+\.(\w+)(?:_\{[a-zA-Z]+\})?` matches at i: the
\* position of the dot that ends \S+, the end of (\w+), and whether the
\* optional suffix group is taken.
TableCands(s, i) ==
    IF ~LitAt(s, i, LitCreateTable) THEN {}
    ELSE LET b == i + Len(LitCreateTable)
             dots == {d \in (b + 1)..RunEnd(s, b, "S") : s[d] = "."}
         IN  UNION {{[dot |-> d, nameEnd |-> k, sfx |-> FALSE] :
                        k \in (d + 1)..RunEnd(s, d + 1, "w")} \cup
                    {[dot |-> d, nameEnd |-> k, sfx |-> TRUE] :
                        k \in {j \in (d + 1)..RunEnd(s, d + 1, "w") :
                                    SuffixAt(s, j + 1)}} : d \in dots}

\* c is found before d by a backtracking matcher: \S+ and \w+ are greedy
\* (longest first) and so is the optional group (taken first).
TableBefore(c, d) ==
    \/ c.dot > d.dot
    \/ c.dot = d.dot /\ c.nameEnd > d.nameEnd
    \/ c.dot = d.dot /\ c.nameEnd = d.nameEnd /\ (c.sfx \/ ~d.sfx)

\* tableNameRe.FindStringSubmatch(s): the leftmost match, group 1.
TableMatch(s) ==
    LET starts == {i \in 1..Len(s) : LitAt(s, i, LitCreateTable) /\ TableCands(s, i) # {}}
    IN  IF starts = {} THEN NoMatch
        ELSE LET i == Min(starts)
                 cs == TableCands(s, i)
                 c == CHOOSE x \in cs : \A y \in cs : TableBefore(x, y)
             IN  [found |-> TRUE, name |-> SubSeq(s, c.dot + 1, c.nameEnd)]

\* `\s+COMMENT\s+'(.*?)'` matches right after position o (the end of the
\* other clause); the result is the position of the closing quote, 0 if none.
CommentTail(s, o) ==
    LET w2 == RunEnd(s, o + 1, "s")
        w3 == RunEnd(s, w2 + 1 + Len(LitComment), "s")
    IN  IF /\ w2 >= o + 1
           /\ LitAt(s, w2 + 1, LitComment)
           /\ w3 >= w2 + 1 + Len(LitComment)
           /\ At(s, w3 + 1) = "'"
        THEN LET lineEnd == RunEnd(s, w3 + 2, ".")
                 qs == {q \in (w3 + 2)..lineEnd : s[q] = "'"}
             IN  IF qs = {} THEN [close |-> 0, open |-> 0]
                 ELSE [close |-> Min(qs), open |-> w3 + 1]
        ELSE [close |-> 0, open |-> 0]

\* fieldRe matched at position i.  The identifier, the blanks after it and
\* the type token are fixed by the text (each is followed by a character its
\* class excludes); the blanks before the other clause are greedy, the other
\* clause (.*?) is lazy and does not cross a line break.
FieldMatchAt(s, i) ==
    LET nameEnd == RunEnd(s, i + 1, "w")
        ws0 == RunEnd(s, nameEnd + 2, "s")
        letters == RunEnd(s, ws0 + 1, "A-Za-z")
        digits == RunEnd(s, letters + 1, "d")
        pd == RunEnd(s, digits + 2, "d")
        typeEnd == IF At(s, digits + 1) = "(" /\ pd >= digits + 2 /\ At(s, pd + 1) = ")"
                   THEN pd + 1 ELSE digits
        ws1 == RunEnd(s, typeEnd + 1, "s")
    IN  IF /\ At(s, i) = Backtick
           /\ nameEnd >= i + 1
           /\ At(s, nameEnd + 1) = Backtick
           /\ ws0 >= nameEnd + 2
           /\ letters >= ws0 + 1
           /\ ws1 >= typeEnd + 1
        THEN LET Others(e1) ==
                     {o \in e1..RunEnd(s, e1 + 1, ".") :
                         CommentTail(s, o).close # 0}
                 good == {e1 \in (typeEnd + 1)..ws1 : Others(e1) # {}}
             IN  IF good = {} THEN NoMatch
                 ELSE LET e1 == Max(good)
                          o == Min(Others(e1))
                          t == CommentTail(s, o)
                      IN  [found |-> TRUE,
                           name |-> SubSeq(s, i + 1, nameEnd),
                           type |-> SubSeq(s, ws0 + 1, typeEnd),
                           other |-> SubSeq(s, e1 + 1, o),
                           comment |-> SubSeq(s, t.open + 1, t.close - 1),
                           end |-> t.close]
        ELSE NoMatch

\* fieldRe.FindAllStringSubmatch(s, -1): the matches from left to right, each
\* search resuming after the previous match.
RECURSIVE FindAllFrom(_, _)
FindAllFrom(s, i) ==
    IF i > Len(s) THEN <<>>
    ELSE LET m == FieldMatchAt(s, i)
         IN  IF m.found THEN <<m>> \o FindAllFrom(s, m.end + 1)
             ELSE FindAllFrom(s, i + 1)

FindAll(s) == FindAllFrom(s, 1)

\* notNullRegex.MatchString: (?i)\bNOT\s+NULL\b
NotNullMatch(s) ==
    \E i \in 1..Len(s) :
        /\ WordBoundary(s, i)
        /\ LitAtFold(s, i, LitNot)
        /\ \E w \in (i + 3)..Len(s) :
            /\ \A k \in (i + 3)..w : IsSpace(s[k])
            /\ LitAtFold(s, w + 1, LitNull)
            /\ WordBoundary(s, w + 5)

\* nullRegex.MatchString: (?i)(DEFAULT\s+NULL|NULL\b)
NullMatch(s) ==
    \/ \E i \in 1..Len(s) :
        /\ LitAtFold(s, i, LitDefault)
        /\ \E w \in (i + 7)..Len(s) :
            /\ \A k \in (i + 7)..w : IsSpace(s[k])
            /\ LitAtFold(s, w + 1, LitNull)
    \/ \E i \in 1..Len(s) :
        /\ LitAtFold(s, i, LitNull)
        /\ WordBoundary(s, i + 4)

-----------------------------------------------------------------------------
(* Type mapper *)

TypeMappings ==
    (<<"I","N","T">> :> "int32") @@
    (<<"S","M","A","L","L","I","N","T">> :> "int32") @@
    (<<"T","I","N","Y","I","N","T">> :> "int32") @@
    (<<"M","E","D","I","U","M","I","N","T">> :> "int32") @@
    (<<"B","I","G","I","N","T">> :> "int64") @@
    (<<"V","A","R","C","H","A","R">> :> "string") @@
    (<<"C","H","A","R">> :> "string") @@
    (<<"T","E","X","T">> :> "string") @@
    (<<"J","S","O","N">> :> "string") @@
    (<<"D","A","T","E","T","I","M","E">> :> "datetime.DateTime") @@
    (<<"D","O","U","B","L","E">> :> "float64") @@
    (<<"F","L","O","A","T">> :> "float32")

NullableTypeMappings ==
    (<<"I","N","T">> :> "sql.NullInt32") @@
    (<<"S","M","A","L","L","I","N","T">> :> "sql.NullInt32") @@
    (<<"T","I","N","Y","I","N","T">> :> "sql.NullInt32") @@
    (<<"M","E","D","I","U","M","I","N","T">> :> "sql.NullInt32") @@
    (<<"B","I","G","I","N","T">> :> "sql.NullInt64") @@
    (<<"V","A","R","C","H","A","R">> :> "sql.NullString") @@
    (<<"C","H","A","R">> :> "sql.NullString") @@
    (<<"T","E","X","T">> :> "sql.NullString") @@
    (<<"J","S","O","N">> :> "sql.NullString") @@
    (<<"D","A","T","E","T","I","M","E">> :> "datetime.NullDateTime") @@
    (<<"D","O","U","B","L","E">> :> "sql.NullFloat64") @@
    (<<"F","L","O","A","T">> :> "sql.NullFloat32")

\* m[k] of a Go map of strings: the empty string when k is no key.
MapGet(m, k) == IF k \in DOMAIN m THEN m[k] ELSE ""

-----------------------------------------------------------------------------
(* Schema extractor *)

HasPrefix(s, p) == LitAt(s, 1, p)
Contains(s, sub) == \E i \in 1..(Len(s) + 1) : LitAt(s, i, sub)

\* strings.ToUpper(strings.Split(t, "(")[0])
SqlTypeOf(t) == ToUpper(SubSeq(t, 1, RunEnd(t, 1, "^(")))

\* regexp.MustCompile(`\d+`).FindString(t): the leftmost run of digits.
FirstDigits(t) ==
    LET ds == {i \in 1..Len(t) : IsDigit(t[i])}
    IN  IF ds = {} THEN <<>>
        ELSE SubSeq(t, Min(ds), RunEnd(t, Min(ds), "d"))

IsNullable(otherPart) ==
    IF ~NotNullMatch(otherPart) THEN NullMatch(otherPart) ELSE FALSE

GoTypeOf(sqlType, otherPart) ==
    IF IsNullable(otherPart)
    THEN MapGet(NullableTypeMappings, sqlType)
    ELSE MapGet(TypeMappings, sqlType)

ValidateOmitEmpty == <<"validate:\"omitempty\"">>
ValidateMax(size) == <<"validate:\"max=">> \o size \o <<"\"">>

ValidateOf(type, otherPart) ==
    IF HasPrefix(type, LitVarchar) THEN ValidateMax(FirstDigits(type))
    ELSE IF Contains(otherPart, LitMarker) THEN ValidateOmitEmpty
    ELSE <<>>

\* The FieldMeta Parse builds from one match of fieldRe.
FieldOf(match) ==
    [FieldName |-> ToPascalCase(match.name),
     FieldType |-> GoTypeOf(SqlTypeOf(match.type), match.other),
     Comment |-> match.comment,
     Validate |-> ValidateOf(match.type, match.other),
     OriginalField |-> match.name]

ParseFields(s) ==
    LET matches == FindAll(s)
    IN  [i \in 1..Len(matches) |-> FieldOf(matches[i])]

\* What Parse makes of TableName and StructName.
ParseTable(s, tableName, structName) ==
    LET tableMatch == TableMatch(s)
    IN  IF tableMatch.found
        THEN [TableName |-> tableMatch.name,
              StructName |-> IF structName = <<>>
                             THEN ToPascalCase(tableMatch.name)
                             ELSE structName]
        ELSE [TableName |-> tableName, StructName |-> structName]

-----------------------------------------------------------------------------
(* Code emitter *)

\* strings.ToLower(name[:1]) + name[1:]; the slice name[:1] of an empty name
\* is out of range, which the callers below turn into a panic.
PrivateField(name) == ToLower(SubSeq(name, 1, 1)) \o SubSeq(name, 2, Len(name))

nullableToBasic ==
    ("sql.NullString" :> "string") @@ ("sql.NullInt32" :> "int32") @@
    ("sql.NullInt64" :> "int64") @@ ("sql.NullFloat32" :> "float32") @@
    ("sql.NullFloat64" :> "float64") @@ ("datetime.NullDateTime" :> "time.Time")

EntityType(fieldType) ==
    IF fieldType \in DOMAIN nullableToBasic THEN nullableToBasic[fieldType]
    ELSE IF fieldType = "datetime.DateTime" THEN "time.Time"
    ELSE fieldType

PoLine(field) ==
    [name |-> field.FieldName, type |-> field.FieldType,
     db |-> field.OriginalField, validate |-> field.Validate,
     comment |-> field.Comment]

EntityLine(field) ==
    [name |-> PrivateField(field.FieldName),
     type |-> EntityType(field.FieldType),
     comment |-> field.Comment]

\* What the PO-to-Entity switch appends to the field name.
ToEntityAccessor(fieldType) ==
    CASE fieldType = "sql.NullString" -> ".String"
      [] fieldType = "datetime.NullDateTime" -> ".Time.Time()"
      [] fieldType = "datetime.DateTime" -> ".Time()"
      [] fieldType = "sql.NullInt32" -> ".Int32"
      [] fieldType = "sql.NullInt64" -> ".Int64"
      [] fieldType = "sql.NullFloat64" -> ".Float64"
      [] OTHER -> ""

\* One line `With<Name>(p.<fieldAccess>).` of the generated ToXEntity.
ToEntityArg(field) ==
    [with |-> Title(PrivateField(field.FieldName)),
     base |-> field.FieldName,
     accessor |-> ToEntityAccessor(field.FieldType)]

\* strings.Title(strings.TrimPrefix(fieldType, "sql.Null")) on the three types
\* of the case that uses it.
BaseTypeOf(fieldType) ==
    CASE fieldType = "sql.NullInt32" -> "Int32"
      [] fieldType = "sql.NullInt64" -> "Int64"
      [] fieldType = "sql.NullFloat64" -> "Float64"

\* The format the Entity-to-PO switch wraps the entity getter in.
ToPOFormat(fieldType) ==
    CASE fieldType = "sql.NullString" -> "sql.NullString{String: %s, Valid: true}"
      [] fieldType = "datetime.NullDateTime" -> "TimeToNullDateTime(%s)"
      [] fieldType = "datetime.DateTime" -> "datetime.NewDateTime(%s)"
      [] fieldType \in {"sql.NullInt32", "sql.NullInt64", "sql.NullFloat64"} ->
            "%s{%s: %s, Valid: true}"
      [] OTHER -> "%s"

\* One line `<FieldName>: <fieldAccess>,` of the generated ToX.
ToPOArg(field) ==
    [name |-> field.FieldName,
     format |-> ToPOFormat(field.FieldType),
     args |-> IF ToPOFormat(field.FieldType) = "%s{%s: %s, Valid: true}"
              THEN <<field.FieldType, BaseTypeOf(field.FieldType)>>
              ELSE <<>>,
     getter |-> <<"e.">> \o Title(PrivateField(field.FieldName)) \o <<"()">>]

\* filepath.Join(outputDir, ToSnakeCase(SecondStructName) + "_template.go"),
\* without the directory.
FileName(second) == ToSnakeCase(second) \o <<"_template.go">>

NoOutput ==
    [fileName |-> <<>>, po |-> <<>>, hasEntity |-> FALSE, entity |-> <<>>,
     toEntity |-> <<>>, toPO |-> <<>>, timeFunc |-> FALSE]

\* FieldName[:1] is evaluated for every field once a secondary struct name
\* is configured.
GeneratePanics(second, fields) ==
    second # <<>> /\ \E i \in 1..Len(fields) : fields[i].FieldName = <<>>

\* The document GenerateStruct renders.
Render(second, fields) ==
    [fileName |-> FileName(second),
     po |-> [i \in 1..Len(fields) |-> PoLine(fields[i])],
     hasEntity |-> second # <<>>,
     entity |-> IF second # <<>>
                THEN [i \in 1..Len(fields) |-> EntityLine(fields[i])] ELSE <<>>,
     toEntity |-> IF second # <<>>
                  THEN [i \in 1..Len(fields) |-> ToEntityArg(fields[i])] ELSE <<>>,
     toPO |-> IF second # <<>>
              THEN [i \in 1..Len(fields) |-> ToPOArg(fields[i])] ELSE <<>>,
     timeFunc |-> /\ second # <<>>
                  /\ \E i \in 1..Len(fields) :
                        fields[i].FieldType = "datetime.NullDateTime"]

-----------------------------------------------------------------------------
(* The generated conversions, run on a PO row.  A value is a plain Go value  *)
(* (a scalar or a time.Time; 0 is the zero value), a datetime.DateTime, or a *)
(* nullable wrapper with its presence flag and payload.                      *)

Plain(v) == [kind |-> "plain", Valid |-> TRUE, Val |-> v]
DateTime(v) == [kind |-> "DateTime", Valid |-> TRUE, Val |-> v]
Null(valid, v) == [kind |-> "Null", Valid |-> valid, Val |-> v]
NullDateTime(valid, v) == [kind |-> "NullDateTime", Valid |-> valid, Val |-> v]

NullableWrappers == Range(NullableTypeMappings)

\* The values a PO field of the given type holds; an absent wrapper, as the
\* database driver leaves it, carries the zero payload.
PoValues(fieldType) ==
    IF fieldType = "datetime.NullDateTime"
    THEN {NullDateTime(TRUE, v) : v \in 0..MaxVal} \cup {NullDateTime(FALSE, 0)}
    ELSE IF fieldType \in NullableWrappers
    THEN {Null(TRUE, v) : v \in 0..MaxVal} \cup {Null(FALSE, 0)}
    ELSE IF fieldType = "datetime.DateTime"
    THEN {DateTime(v) : v \in 0..MaxVal}
    ELSE {Plain(v) : v \in 0..MaxVal}

\* p.<Field><accessor>
EvalAccessor(accessor, x) == IF accessor = "" THEN x ELSE Plain(x.Val)

\* The emitted helper TimeToNullDateTime.
TimeToNullDateTime(t) ==
    IF t.Val # 0 THEN NullDateTime(TRUE, t.Val) ELSE NullDateTime(FALSE, 0)

\* The emitted Entity-to-PO expression on the entity's value x.
EvalToPO(format, x) ==
    CASE format = "%s" -> x
      [] format = "TimeToNullDateTime(%s)" -> TimeToNullDateTime(x)
      [] format = "datetime.NewDateTime(%s)" -> DateTime(x.Val)
      [] OTHER -> Null(TRUE, x.Val)

-----------------------------------------------------------------------------
(* The SQL texts the runs read *)

NoTable == [present |-> FALSE, schema |-> <<>>, name |-> <<>>, suffix |-> <<>>]

\* CREATE TABLE <schema>.<name><suffix>
TableClauses(names, suffixes) ==
    {NoTable} \cup
    {[present |-> TRUE, schema |-> <<"s","h","a","r","d">>, name |-> n, suffix |-> x] :
        n \in names, x \in suffixes}

TableText(tc) ==
    IF tc.present
    THEN LitCreateTable \o tc.schema \o <<".">> \o tc.name \o tc.suffix \o <<" ">>
    ELSE <<>>

\* The comment of the i-th column: c1, c2, ...
CommentOf(i) == <<"c", CHOOSE d \in Digits : d = ToString(i)>>

\* One column definition: the quoted identifier, the type token, the text
\* between the type token and COMMENT (blanks around the other clause), and
\* the comment.
ColumnText(col, i) ==
    <<Backtick>> \o col.ident \o <<Backtick, " ">> \o col.type \o col.clause
        \o LitComment \o <<" ", "'">> \o CommentOf(i) \o <<"'">>

RECURSIVE ColumnsText(_, _)
ColumnsText(cols, i) ==
    IF i > Len(cols) THEN <<"\n", ")">>
    ELSE (IF i > 1 THEN <<",", "\n">> ELSE <<>>)
            \o ColumnText(cols[i], i) \o ColumnsText(cols, i + 1)

TextOf(sch) == TableText(sch.table) \o <<"(", "\n">> \o ColumnsText(sch.cols, 1)

Schemas(tables, idents, types, clauses, maxCols) ==
    {[table |-> tc, cols |-> cs] :
        tc \in tables,
        cs \in UNION {[1..n -> [ident : idents, type : types, clause : clauses]] :
                        n \in 1..maxCols}}

Idents == {<<"i","d">>, <<"f">>}

SqlTypes ==
    {<<"V","A","R","C","H","A","R","(","6","4",")">>, <<"V","A","R","C","H","A","R","2","(","1","0",")">>,
     <<"E","N","U","M">>, <<"E","N","U","M","(","'","a","'",",","'","b","'",")">>}

\* Between the type token and COMMENT: no other clause after one blank or
\* two, or an other clause between single blanks.
Clauses ==
    {<<" ">>, <<" ", " ">>,
     <<" ","N","O","T"," ","N","U","L","L"," ">>,
     <<" ","D","E","F","A","U","L","T"," ","N","U","L","L"," ">>,
     <<" ","D","E","F","A","U","L","T"," ","'","N","O","N","N","U","L","L","'"," ">>,
     <<" ","N","U","L","L"," ","U+52A0","U+5BC6"," ">>}

TableNames == {<<"o","r","d","e","r","s">>}
Suffixes == {<<>>, <<"_","{","r","e","g","i","o","n","}">>}

PoNames == {<<"O","r","d","e","r","P","o">>}
EntityNames == {<<>>, <<"O","r","d","e","r","E","n","t","i","t","y">>}

\* The arguments main and other callers hand to NewSQLParser(structNames...).
StructNameArgs ==
    {<<>>} \cup {<<p>> : p \in PoNames}
           \cup {<<p, e>> : p \in PoNames, e \in EntityNames}

MainSchemas == Schemas(TableClauses(TableNames, Suffixes), Idents, SqlTypes, Clauses, MaxCols)

\* One column of every mapped type and of an unmapped one, with and without
\* a parameter list, nullable and not.
ConvSchemas ==
    Schemas({[present |-> TRUE, schema |-> <<"s","h","a","r","d">>, name |-> <<"o","r","d","e","r","s">>, suffix |-> <<>>]},
            {<<"i","d">>},
            DOMAIN TypeMappings \cup {<<"E","N","U","M">>, <<"E","N","U","M","(","'","a","'",",","'","b","'",")">>},
            {<<" ","N","O","T"," ","N","U","L","L"," ">>, <<" ","D","E","F","A","U","L","T"," ","N","U","L","L"," ">>}, 1)

-----------------------------------------------------------------------------
(* The run: NewSQLParser, LoadSQLFile (Parse), GenerateStruct *)

InitWith(schemas) ==
    /\ pc = "start"
    /\ schema \in schemas
    /\ sqlContent = TextOf(schema)
    /\ TableName = <<>>
    /\ StructName = <<>>
    /\ SecondStructName = <<>>
    /\ Fields = <<>>
    /\ out = NoOutput
    /\ arg = <<>>
    /\ pascalRes = <<>>
    /\ snakeRes = <<>>
    /\ po = <<>>
    /\ entity = <<>>
    /\ po2 = <<>>

Init == InitWith(MainSchemas)

NewSQLParser ==
    /\ pc = "start"
    /\ \E structNames \in StructNameArgs :
        /\ StructName' = IF Len(structNames) > 0 THEN structNames[1] ELSE <<>>
        /\ SecondStructName' = IF Len(structNames) > 1 THEN structNames[2] ELSE <<>>
    /\ pc' = "constructed"
    /\ UNCHANGED <<sqlContent, TableName, Fields, out, arg, pascalRes, snakeRes,
                   po, entity, po2, schema>>

\* LoadSQLFile: the file cannot be read, or Parse runs on its text.
LoadSQLFile ==
    /\ pc = "constructed"
    /\ \/ /\ pc' = "readFailed"
          /\ UNCHANGED <<TableName, StructName, Fields>>
       \/ /\ LET r == ParseTable(sqlContent, TableName, StructName)
             IN  /\ TableName' = r.TableName
                 /\ StructName' = r.StructName
          /\ Fields' = Fields \o ParseFields(sqlContent)
          /\ pc' = "parsed"
    /\ UNCHANGED <<sqlContent, SecondStructName, out, arg, pascalRes, snakeRes,
                   po, entity, po2, schema>>

\* GenerateStruct: panics on an empty field name, else renders and writes.
GenerateStruct ==
    /\ pc = "parsed"
    /\ \/ /\ GeneratePanics(SecondStructName, Fields)
          /\ pc' = "panic"
          /\ out' = out
       \/ /\ ~GeneratePanics(SecondStructName, Fields)
          /\ pc' = "writeFailed"
          /\ out' = out
       \/ /\ ~GeneratePanics(SecondStructName, Fields)
          /\ pc' = "written"
          /\ out' = Render(SecondStructName, Fields)
    /\ UNCHANGED <<sqlContent, TableName, StructName, SecondStructName, Fields,
                   arg, pascalRes, snakeRes, po, entity, po2, schema>>

Next == NewSQLParser \/ LoadSQLFile \/ GenerateStruct

Spec == Init /\ [][Next]_vars

-----------------------------------------------------------------------------
(* The generated conversions at run time *)

InitConv == InitWith(ConvSchemas)

\* The generated ToXEntity on a PO row.
RunToEntity ==
    /\ pc = "written"
    /\ out.hasEntity
    /\ \E row \in [1..Len(Fields) -> UNION {PoValues(Fields[i].FieldType) : i \in 1..Len(Fields)}] :
        /\ \A i \in 1..Len(Fields) : row[i] \in PoValues(Fields[i].FieldType)
        /\ po' = row
        /\ entity' = [i \in 1..Len(Fields) |-> EvalAccessor(out.toEntity[i].accessor, row[i])]
    /\ pc' = "converted"
    /\ UNCHANGED <<sqlContent, TableName, StructName, SecondStructName, Fields,
                   out, arg, pascalRes, snakeRes, po2, schema>>

\* The generated ToX on the entity.
RunToPO ==
    /\ pc = "converted"
    /\ po2' = [i \in 1..Len(Fields) |-> EvalToPO(out.toPO[i].format, entity[i])]
    /\ pc' = "restored"
    /\ UNCHANGED <<sqlContent, TableName, StructName, SecondStructName, Fields,
                   out, arg, pascalRes, snakeRes, po, entity, schema>>

NextConv == NewSQLParser \/ LoadSQLFile \/ GenerateStruct \/ RunToEntity \/ RunToPO

SpecConv == InitConv /\ [][NextConv]_vars

-----------------------------------------------------------------------------
(* The naming functions on their own *)

NameAlphabet == {"a", "f", "B", "F", "_", "1", "-"}

NameArgs == UNION {[1..n -> NameAlphabet] : n \in 0..MaxLen}

InitNaming ==
    /\ pc = "naming"
    /\ arg \in NameArgs
    /\ pascalRes = <<>>
    /\ snakeRes = <<>>
    /\ schema = [table |-> NoTable, cols |-> <<>>]
    /\ sqlContent = <<>>
    /\ TableName = <<>>
    /\ StructName = <<>>
    /\ SecondStructName = <<>>
    /\ Fields = <<>>
    /\ out = NoOutput
    /\ po = <<>>
    /\ entity = <<>>
    /\ po2 = <<>>

CallToPascalCase ==
    /\ pc = "naming"
    /\ pascalRes' = ToPascalCase(arg)
    /\ pc' = "pascal"
    /\ UNCHANGED <<sqlContent, TableName, StructName, SecondStructName, Fields,
                   out, arg, snakeRes, po, entity, po2, schema>>

CallToSnakeCase ==
    /\ pc = "pascal"
    /\ snakeRes' = ToSnakeCase(pascalRes)
    /\ pc' = "snake"
    /\ UNCHANGED <<sqlContent, TableName, StructName, SecondStructName, Fields,
                   out, arg, pascalRes, po, entity, po2, schema>>

NextNaming == CallToPascalCase \/ CallToSnakeCase

SpecNaming == InitNaming /\ [][NextNaming]_vars

-----------------------------------------------------------------------------
(* Claims *)

AfterParse == pc \in {"parsed", "panic", "writeFailed", "written", "converted", "restored"}

\* C1: when the text holds CREATE TABLE <schema>.<name>_{<letters>}, Parse
\* sets TableName to exactly <name>, without the suffix or its underscore.
C1_TableNameWithoutSuffix ==
    (AfterParse /\ schema.table.present /\ schema.table.suffix # <<>>)
        => TableName = schema.table.name

\* The nullability policy as claimed: NOT NULL wins; otherwise DEFAULT NULL
\* or a NULL that is a word of its own makes the column nullable.
StandaloneNull(s) ==
    \E i \in 1..Len(s) :
        WordBoundary(s, i) /\ LitAtFold(s, i, LitNull) /\ WordBoundary(s, i + 4)

DefaultNull(s) ==
    \E i \in 1..Len(s) :
        /\ LitAtFold(s, i, LitDefault)
        /\ \E w \in (i + 7)..Len(s) :
            /\ \A k \in (i + 7)..w : IsSpace(s[k])
            /\ LitAtFold(s, w + 1, LitNull)

ClaimedNullable(s) == ~NotNullMatch(s) /\ (DefaultNull(s) \/ StandaloneNull(s))

\* C2: every matched column's type follows the three-way policy on its other
\* clause: NOT NULL gives the non-nullable mapping, else DEFAULT NULL or a
\* standalone NULL gives the nullable mapping, else the non-nullable mapping.
C2_NullabilityPolicy ==
    AfterParse =>
        LET matches == FindAll(sqlContent)
        IN  \A i \in 1..Len(matches) :
                Fields[i].FieldType =
                    IF ClaimedNullable(matches[i].other)
                    THEN MapGet(NullableTypeMappings, SqlTypeOf(matches[i].type))
                    ELSE MapGet(TypeMappings, SqlTypeOf(matches[i].type))

\* A snake_case input: lower-case letters and digits in non-empty segments
\* joined by single underscores.
IsSnake(s) ==
    /\ \A i \in 1..Len(s) : IsLower(s[i]) \/ IsDigit(s[i]) \/ s[i] = "_"
    /\ \A i \in 1..Len(Split(s)) : Split(s)[i] # <<>>

TriggersF(s) == Len(PascalConcat(s)) > 0 /\ PascalConcat(s)[1] = "F"

\* Every segment after the first begins with a letter.
LaterSegmentsStartWithLetter(s) ==
    \A i \in 2..Len(Split(s)) : Split(s)[i] # <<>> /\ IsLetter(Split(s)[i][1])

\* C3 as stated: for every snake_case input without upper-case letters whose
\* Pascal form does not trigger the F rule, ToSnakeCase(ToPascalCase(s))
\* equals s up to case.
C3_RoundTripAnySnake ==
    (pc = "snake" /\ IsSnake(arg) /\ ~TriggersF(arg))
        => ToLower(snakeRes) = ToLower(arg)

\* C3 amended: the round trip holds when, in addition, every segment of s
\* after the first begins with a letter.
C3_RoundTrip ==
    (pc = "snake" /\ IsSnake(arg) /\ LaterSegmentsStartWithLetter(arg) /\ ~TriggersF(arg))
        => ToLower(snakeRes) = ToLower(arg)

\* C3: a two-segment name has gone through both functions and come back.
C3_Witness ==
    /\ pc = "snake"
    /\ arg = <<"a", "_", "a", "1">>
    /\ pascalRes = <<"A", "A", "1">>
    /\ snakeRes = arg

\* The Pascal form as claimed: each segment with only its first letter
\* upper-cased, joined; a leading F removed and the new first letter
\* upper-cased.
CapFirst(seg) ==
    IF seg = <<>> THEN <<>> ELSE <<ToUpperChar(seg[1])>> \o Tail(seg)

ClaimedPascal(s) ==
    LET segs == Split(s)
        c == Join([i \in 1..Len(segs) |-> CapFirst(segs[i])])
    IN  IF c # <<>> /\ c[1] = "F" THEN CapFirst(Tail(c)) ELSE c

\* C4 as stated: for every input string ToPascalCase returns the claimed
\* Pascal form, the empty string for the empty input.
C4_PascalAnyInput ==
    pc \in {"pascal", "snake"} =>
        /\ pascalRes = ClaimedPascal(arg)
        /\ arg = <<>> => pascalRes = <<>>

\* C4 amended: the same for every input made of letters, digits and
\* underscores (the identifiers Parse hands to ToPascalCase).
C4_PascalWordInput ==
    (pc \in {"pascal", "snake"} /\ \A i \in 1..Len(arg) : IsWord(arg[i])) =>
        /\ pascalRes = ClaimedPascal(arg)
        /\ arg = <<>> => pascalRes = <<>>

\* C4: an identifier with the marker letter has lost it and been re-capitalised.
C4_Witness ==
    /\ pc = "pascal"
    /\ arg = <<"f", "a", "_", "a">>
    /\ pascalRes = <<"A", "A">>

\* The descriptor of column i of the text, if Parse produced one.
Surfaces(i, j) ==
    /\ j \in 1..Len(Fields)
    /\ Fields[j].OriginalField = schema.cols[i].ident
    /\ Fields[j].Comment = CommentOf(i)

\* C5: a column whose type keyword the mapper does not know is not dropped and
\* raises no error: it surfaces as a descriptor with the empty type.
C5_UnmappedTypeSurfaces ==
    AfterParse =>
        \A i \in 1..Len(schema.cols) :
            SqlTypeOf(schema.cols[i].type) \notin DOMAIN TypeMappings
                => \E j \in 1..Len(Fields) : Surfaces(i, j) /\ Fields[j].FieldType = ""

\* The parameter of a type token: what follows the keyword.
ParameterOf(type) == SubSeq(type, RunEnd(type, 1, "^(") + 1, Len(type))

\* C6: at most one tag per matched column: max=<first numeric run of the
\* type's parameter> when the type token starts with VARCHAR, whatever the
\* other clause holds; else omitempty when the other clause holds the
\* encryption marker; else none.
C6_ValidationTag ==
    AfterParse =>
        LET matches == FindAll(sqlContent)
        IN  \A i \in 1..Len(matches) :
                Fields[i].Validate =
                    IF HasPrefix(matches[i].type, LitVarchar)
                    THEN ValidateMax(FirstDigits(ParameterOf(matches[i].type)))
                    ELSE IF Contains(matches[i].other, LitMarker)
                    THEN ValidateOmitEmpty
                    ELSE <<>>

\* C7: for a field whose PO type is a nullable wrapper, a present wrapper
\* with value v comes back from PO -> Entity -> PO present with the same v,
\* and an absent wrapper converts to the entity's zero value.
C7_ConversionRoundTrip ==
    \A i \in 1..Len(Fields) :
        Fields[i].FieldType \in NullableWrappers =>
            /\ (pc = "restored" /\ po[i].Valid) => po2[i] = po[i]
            /\ (pc \in {"converted", "restored"} /\ ~po[i].Valid) => entity[i] = Plain(0)

\* C8: in the generated PO-to-Entity function the builder is handed the
\* underlying-value accessor of the PO field when its type is a nullable
\* wrapper, and the PO field itself otherwise.
C8_EntityAccessor ==
    (pc = "written" /\ out.hasEntity) =>
        \A i \in 1..Len(Fields) :
            /\ out.toEntity[i].base = Fields[i].FieldName
            /\ (out.toEntity[i].accessor # "") <=> (Fields[i].FieldType \in NullableWrappers)

\* C9: Parse appends exactly one descriptor per column definition of the
\* text, in source order, each with its column's identifier and comment.
C9_OneDescriptorPerColumn ==
    AfterParse =>
        /\ Len(Fields) = Len(schema.cols)
        /\ \A i \in 1..Len(Fields) : Surfaces(i, i)

\* C10: after Parse no descriptor has an empty FieldName, and GenerateStruct
\* never fails on FieldName[:1].
C10_FieldNameNonEmpty ==
    /\ AfterParse => \A i \in 1..Len(Fields) : Fields[i].FieldName # <<>>
    /\ pc # "panic"

=============================================================================
